---- MODULE Spec2Model ----
(***************************************************************************)
(* AI Receptionist API (src/main.py, src/schemas.py): the HTTP routes, the *)
(* document store they write to and read from, and the keyword-matching    *)
(* reply generator.                                                        *)
(*                                                                         *)
(* Text is modelled as a sequence of one-character strings wherever the    *)
(* code looks inside it (lower(), strip(), the `in` substring test, the    *)
(* [:120] slice).  Text that is only built and compared is a sequence of   *)
(* literal pieces; a character outside ASCII is written as its code point  *)
(* ("U+2011" is the non-breaking hyphen of src/main.py:171).               *)
(***************************************************************************)
EXTENDS Integers, Sequences, FiniteSets, TLC

VARIABLES
    db,         \* the store handle imported at main.py:8: "None" or "Database"
    env,        \* the process environment read by os.getenv (DATABASE_URL, DATABASE_NAME)
    foreign,    \* number of collections in the database that are not this program's
    store,      \* collection name -> sequence of stored documents, in insertion order
    pc,         \* per request slot: where its handler stands
    req,        \* per request slot: the request being handled
    conv_id,    \* per request slot: start_conversation's local conv_id
    created,    \* per request slot: identifiers the request's handler has inserted so far (history)
    response,   \* the response most recently sent, with the request it answers
    message,    \* reply generator alone: the input text
    reply       \* reply generator alone: the text returned, NoReply before the call

vars == <<db, env, foreign, store, pc, req, conv_id, created, response, message, reply>>

----------------------------------------------------------------------------
(* Bounds of the model.                                                    *)

\* request slots handled concurrently by the server's thread pool
NumReqs == 2
\* conversation requests whose first document the store comes to hold
MaxExchanges == 2
\* documents inserted per other collection in one run
MaxNew == 2
\* fragments concatenated into one input of the reply generator
MaxFrags == 2

----------------------------------------------------------------------------
(* Python's str methods used by generate_ai_reply.                         *)

UpperLetters == <<"A","B","C","D","E","F","G","H","I","J","K","L","M",
                  "N","O","P","Q","R","S","T","U","V","W","X","Y","Z">>
LowerLetters == <<"a","b","c","d","e","f","g","h","i","j","k","l","m",
                  "n","o","p","q","r","s","t","u","v","w","x","y","z">>
Whitespace == {" ", "\t", "\n", "\r"}

\* str.lower(), character by character
lower(s) ==
    [i \in 1..Len(s) |->
        IF \E j \in 1..26 : UpperLetters[j] = s[i]
        THEN LowerLetters[CHOOSE j \in 1..26 : UpperLetters[j] = s[i]]
        ELSE s[i]]

\* str.strip(): leading and trailing whitespace removed
strip(s) ==
    LET keep == {i \in 1..Len(s) : s[i] \notin Whitespace}
    IN  IF keep = {} THEN <<>>
        ELSE SubSeq(s, CHOOSE i \in keep : \A j \in keep : i <= j,
                       CHOOSE i \in keep : \A j \in keep : j <= i)

\* `k in text` for two strings: k occurs as a contiguous substring
contains(text, k) ==
    \E i \in 0..(Len(text) - Len(k)) : SubSeq(text, i + 1, i + Len(k)) = k

\* any(k in text for k in keys)
any_in(keys, text) == \E k \in keys : contains(text, k)

----------------------------------------------------------------------------
(* generate_ai_reply (main.py:164-180).                                    *)

\* faulty variant: the Wi-Fi test is made before the check-in and check-out tests
generate_ai_reply_wifi_first(msg) ==
    LET text == strip(lower(msg))
    IN  IF any_in({<<"w","i","f","i">>, <<"w","i","-","f","i">>,
                   <<"i","n","t","e","r","n","e","t">>}, text)
        THEN <<"Yes, complimentary high-speed Wi", "U+2011", "Fi is available throughout the property.">>
        ELSE IF any_in({<<"c","h","e","c","k","-","i","n">>, <<"c","h","e","c","k"," ","i","n">>,
                   <<"a","r","r","i","v","a","l">>}, text)
        THEN <<"Check-in is at 3:00 PM. Early check-in is subject to availability.">>
        ELSE IF any_in({<<"c","h","e","c","k","-","o","u","t">>, <<"c","h","e","c","k"," ","o","u","t">>,
                   <<"d","e","p","a","r","t","u","r","e">>}, text)
        THEN <<"Check-out is at 11:00 AM. Late check-out may be available upon request.">>
        ELSE IF any_in({<<"p","a","r","k","i","n","g">>, <<"c","a","r">>}, text)
        THEN <<"Parking is available on-site. Please check with the front desk for rates and availability.">>
        ELSE IF any_in({<<"p","e","t">>, <<"d","o","g">>, <<"c","a","t">>}, text)
        THEN <<"We are pet-friendly for select rooms. A cleaning fee may apply.">>
        ELSE IF any_in({<<"p","o","o","l">>, <<"g","y","m">>, <<"f","i","t","n","e","s","s">>,
                   <<"s","p","a">>}, text)
        THEN <<"Our amenities include fitness center access from 6 AM to 10 PM.">>
        ELSE IF any_in({<<"r","a","t","e">>, <<"p","r","i","c","e">>, <<"c","o","s","t">>}, text)
        THEN <<"Standard rates start from $89 per night before taxes and fees.">>
        ELSE <<"Thanks for reaching out! How can I assist with your stay, booking, or questions today?">>

\* faulty variant: the keyword "wi-fi" is dropped from the Wi-Fi test
generate_ai_reply_no_wi_fi(msg) ==
    LET text == strip(lower(msg))
    IN  IF any_in({<<"c","h","e","c","k","-","i","n">>, <<"c","h","e","c","k"," ","i","n">>,
                   <<"a","r","r","i","v","a","l">>}, text)
        THEN <<"Check-in is at 3:00 PM. Early check-in is subject to availability.">>
        ELSE IF any_in({<<"c","h","e","c","k","-","o","u","t">>, <<"c","h","e","c","k"," ","o","u","t">>,
                   <<"d","e","p","a","r","t","u","r","e">>}, text)
        THEN <<"Check-out is at 11:00 AM. Late check-out may be available upon request.">>
        ELSE IF any_in({<<"w","i","f","i">>, <<"i","n","t","e","r","n","e","t">>}, text)
        THEN <<"Yes, complimentary high-speed Wi", "U+2011", "Fi is available throughout the property.">>
        ELSE IF any_in({<<"p","a","r","k","i","n","g">>, <<"c","a","r">>}, text)
        THEN <<"Parking is available on-site. Please check with the front desk for rates and availability.">>
        ELSE IF any_in({<<"p","e","t">>, <<"d","o","g">>, <<"c","a","t">>}, text)
        THEN <<"We are pet-friendly for select rooms. A cleaning fee may apply.">>
        ELSE IF any_in({<<"p","o","o","l">>, <<"g","y","m">>, <<"f","i","t","n","e","s","s">>,
                   <<"s","p","a">>}, text)
        THEN <<"Our amenities include fitness center access from 6 AM to 10 PM.">>
        ELSE IF any_in({<<"r","a","t","e">>, <<"p","r","i","c","e">>, <<"c","o","s","t">>}, text)
        THEN <<"Standard rates start from $89 per night before taxes and fees.">>
        ELSE <<"Thanks for reaching out! How can I assist with your stay, booking, or questions today?">>

generate_ai_reply(msg) ==
    LET text == strip(lower(msg))
    IN  IF any_in({<<"c","h","e","c","k","-","i","n">>, <<"c","h","e","c","k"," ","i","n">>,
                   <<"a","r","r","i","v","a","l">>}, text)
        THEN <<"Check-in is at 3:00 PM. Early check-in is subject to availability.">>
        ELSE IF any_in({<<"c","h","e","c","k","-","o","u","t">>, <<"c","h","e","c","k"," ","o","u","t">>,
                   <<"d","e","p","a","r","t","u","r","e">>}, text)
        THEN <<"Check-out is at 11:00 AM. Late check-out may be available upon request.">>
        ELSE IF any_in({<<"w","i","f","i">>, <<"w","i","-","f","i">>,
                   <<"i","n","t","e","r","n","e","t">>}, text)
        THEN <<"Yes, complimentary high-speed Wi", "U+2011", "Fi is available throughout the property.">>
        ELSE IF any_in({<<"p","a","r","k","i","n","g">>, <<"c","a","r">>}, text)
        THEN <<"Parking is available on-site. Please check with the front desk for rates and availability.">>
        ELSE IF any_in({<<"p","e","t">>, <<"d","o","g">>, <<"c","a","t">>}, text)
        THEN <<"We are pet-friendly for select rooms. A cleaning fee may apply.">>
        ELSE IF any_in({<<"p","o","o","l">>, <<"g","y","m">>, <<"f","i","t","n","e","s","s">>,
                   <<"s","p","a">>}, text)
        THEN <<"Our amenities include fitness center access from 6 AM to 10 PM.">>
        ELSE IF any_in({<<"r","a","t","e">>, <<"p","r","i","c","e">>, <<"c","o","s","t">>}, text)
        THEN <<"Standard rates start from $89 per night before taxes and fees.">>
        ELSE <<"Thanks for reaching out! How can I assist with your stay, booking, or questions today?">>

----------------------------------------------------------------------------
(* Record schemas (schemas.py) and the request shape ConversationIn.       *)

None == "None"
\* no text yet (generate_ai_reply never returns the empty text)
NoReply == <<>>

\* ConversationMessage (schemas.py:35-38)
ConversationMessage(role, content, lang) ==
    [role |-> role, content |-> content, lang |-> lang]

\* faulty variant: the default status is 'closed'
Conversation_default_closed(visitor_id, messages, status) ==
    [visitor_id |-> visitor_id, messages |-> messages,
     status |-> IF status = None THEN "closed" ELSE status,
     source |-> "web"]

\* Conversation (schemas.py:40-44): source is never supplied by a route and
\* takes its default; status is supplied as 'open' or left to its default.
Conversation(visitor_id, messages, status) ==
    [visitor_id |-> visitor_id, messages |-> messages,
     status |-> IF status = None THEN "open" ELSE status,
     source |-> "web"]

\* ConversationIn (main.py:88-91)
ConversationIn(visitor_id, msg, lang) ==
    [visitor_id |-> visitor_id, message |-> msg, lang |-> lang]

\* Property (schemas.py:11-28), the fields with defaults that a body of only a name receives
Property(name) ==
    [name |-> name, check_in_time |-> "3:00 PM", check_out_time |-> "11:00 AM",
     currency |-> "USD", rooms_total |-> 20, rooms_available |-> 20]

\* Faq (schemas.py:30-33)
Faq(question, answer) == [question |-> question, answer |-> answer, tags |-> <<>>]

\* Lead (schemas.py:46-52)
Lead(name, conversation_id) ==
    [name |-> name, conversation_id |-> conversation_id, status |-> "new"]

\* BookingRequest (schemas.py:54-65)
BookingRequest(full_name, email) ==
    [full_name |-> full_name, email |-> email, adults |-> 2, children |-> 0,
     currency |-> "USD"]

----------------------------------------------------------------------------
(* The document store access layer imported at main.py:8.                  *)

Collections == {"property", "faq", "conversation", "lead", "bookingrequest"}

\* the identifier the store assigns to the next document of a collection
inserted_id(collection_name) == <<collection_name, Len(store[collection_name]) + 1>>

\* how a create_document call can end: without a handle it always raises;
\* with one, the insert succeeds or the store reports a failure
create_outcomes == IF db = None THEN {"StorageUnavailable"} ELSE {"ok", "StorageError"}

\* the store after a successful create_document(collection_name, data)
create_document(collection_name, data) ==
    [store EXCEPT ![collection_name] =
        Append(@, ("_id" :> inserted_id(collection_name)) @@ data)]

\* how a get_documents call can end
get_outcomes == IF db = None THEN {"StorageUnavailable"} ELSE {"ok", "StorageError"}

\* the result of a successful get_documents(collection_name, {}, limit)
get_documents(collection_name, limit) ==
    SubSeq(store[collection_name], 1,
           IF Len(store[collection_name]) < limit THEN Len(store[collection_name]) ELSE limit)

----------------------------------------------------------------------------
(* Requests and responses.                                                 *)

Reqs == 1..NumReqs

NoRequest == [visitor_id |-> None, message |-> <<>>, lang |-> None]
NoId == <<None, 0>>

\* raise HTTPException(status_code=500, detail=str(e))
HTTPException(route, request, e, inserted) ==
    [route |-> route, request |-> request, status |-> 500,
     body |-> [detail |-> e], inserted |-> inserted]

\* a value returned by a handler: FastAPI sends it with status 200
Returned(route, request, body, inserted) ==
    [route |-> route, request |-> request, status |-> 200,
     body |-> body, inserted |-> inserted]

NoResponse ==
    [route |-> None, request |-> NoRequest, status |-> 0,
     body |-> [detail |-> None], inserted |-> <<>>]

\* bodies of the conversation routes that pass request validation
ConvInputs ==
    { ConversationIn("v1", <<"D","o"," ","y","o","u"," ","a","l","l","o","w"," ","p","e","t","s","?">>, None),
      ConversationIn("v1", <<"W","i","F","i","?">>, "en"),
      ConversationIn("v2", <<"h","i">>, None) }
\* values of the path parameter conversation_id: an identifier the store may hold, and one it never holds
PathIds == {<<"conversation", 1>>, NoId}

ConvBudget ==
    Cardinality({i \in 1..Len(store["conversation"]) :
                    store["conversation"][i].messages[1].role = "user"}) < MaxExchanges

\* the server's worker threads are interchangeable: a new request is taken by
\* the first slot that is free
accepts(r) == pc[r] = "idle" /\ \A q \in Reqs : q < r => pc[q] # "idle"

----------------------------------------------------------------------------
(* POST /api/conversations/start (main.py:93-110), in two steps: up to the *)
(* return of the first create_document, and from there to the response.    *)

start_conversation_user(r) ==
    /\ accepts(r)
    /\ ConvBudget
    /\ \E payload \in ConvInputs, o \in create_outcomes :
        LET conv == Conversation(payload.visitor_id,
                        <<ConversationMessage("user", payload.message, payload.lang)>>, None)
        IN  IF o = "ok"
            THEN /\ store' = create_document("conversation", conv)
                 /\ conv_id' = [conv_id EXCEPT ![r] = inserted_id("conversation")]
                 /\ created' = [created EXCEPT ![r] = <<inserted_id("conversation")>>]
                 /\ req' = [req EXCEPT ![r] = payload]
                 /\ pc' = [pc EXCEPT ![r] = "start_reply"]
                 /\ UNCHANGED response
            ELSE /\ response' = HTTPException("POST /api/conversations/start", payload, o, <<>>)
                 /\ UNCHANGED <<store, conv_id, created, req, pc>>
    /\ UNCHANGED <<db, env, foreign, message, reply>>

\* faulty variant: the identifier returned is the one of the assistant document
start_conversation_reply_returns_second(r) ==
    /\ pc[r] = "start_reply"
    /\ \E o \in create_outcomes :
        LET payload == req[r]
            ai_reply == generate_ai_reply(payload.message)
            conv == Conversation(payload.visitor_id,
                        <<ConversationMessage("assistant", ai_reply, payload.lang)>>, "open")
        IN  IF o = "ok"
            THEN /\ store' = create_document("conversation", conv)
                 /\ response' = Returned("POST /api/conversations/start", payload,
                                    [conversation_id |-> inserted_id("conversation"), reply |-> ai_reply],
                                    Append(created[r], inserted_id("conversation")))
            ELSE /\ response' = HTTPException("POST /api/conversations/start", payload, o, created[r])
                 /\ UNCHANGED store
    /\ pc' = [pc EXCEPT ![r] = "idle"]
    /\ req' = [req EXCEPT ![r] = NoRequest]
    /\ conv_id' = [conv_id EXCEPT ![r] = NoId]
    /\ created' = [created EXCEPT ![r] = <<>>]
    /\ UNCHANGED <<db, env, foreign, message, reply>>

start_conversation_reply(r) ==
    /\ pc[r] = "start_reply"
    /\ \E o \in create_outcomes :
        LET payload == req[r]
            ai_reply == generate_ai_reply(payload.message)
            conv == Conversation(payload.visitor_id,
                        <<ConversationMessage("assistant", ai_reply, payload.lang)>>, "open")
        IN  IF o = "ok"
            THEN /\ store' = create_document("conversation", conv)
                 /\ response' = Returned("POST /api/conversations/start", payload,
                                    [conversation_id |-> conv_id[r], reply |-> ai_reply],
                                    Append(created[r], inserted_id("conversation")))
            ELSE /\ response' = HTTPException("POST /api/conversations/start", payload, o, created[r])
                 /\ UNCHANGED store
    /\ pc' = [pc EXCEPT ![r] = "idle"]
    /\ req' = [req EXCEPT ![r] = NoRequest]
    /\ conv_id' = [conv_id EXCEPT ![r] = NoId]
    /\ created' = [created EXCEPT ![r] = <<>>]
    /\ UNCHANGED <<db, env, foreign, message, reply>>

----------------------------------------------------------------------------
(* POST /api/conversations/{conversation_id}/message (main.py:112-129), in *)
(* the same two steps.  req[r] keeps the path parameter beside the body.   *)

\* faulty variant: when the path parameter names a stored conversation, the user
\* message is appended to that document instead of becoming a new one
add_message_user_appends(r) ==
    /\ accepts(r)
    /\ ConvBudget
    /\ \E conversation_id \in PathIds, payload \in ConvInputs, o \in create_outcomes :
        LET request == ("conversation_id" :> conversation_id) @@ payload
            conv == Conversation(payload.visitor_id,
                        <<ConversationMessage("user", payload.message, payload.lang)>>, "open")
            named == conversation_id[1] = "conversation"
                        /\ conversation_id[2] \in 1..Len(store["conversation"])
        IN  IF o = "ok"
            THEN /\ IF named
                    THEN /\ store' = [store EXCEPT !["conversation"][conversation_id[2]].messages =
                                        Append(@, ConversationMessage("user", payload.message, payload.lang))]
                         /\ created' = [created EXCEPT ![r] = <<conversation_id>>]
                    ELSE /\ store' = create_document("conversation", conv)
                         /\ created' = [created EXCEPT ![r] = <<inserted_id("conversation")>>]
                 /\ req' = [req EXCEPT ![r] = request]
                 /\ pc' = [pc EXCEPT ![r] = "message_reply"]
                 /\ UNCHANGED response
            ELSE /\ response' = HTTPException("POST /api/conversations/{conversation_id}/message",
                                    request, o, <<>>)
                 /\ UNCHANGED <<store, created, req, pc>>
    /\ UNCHANGED <<db, env, foreign, conv_id, message, reply>>

\* faulty variant: the assistant reply is persisted by the first create, the user message by the second
add_message_user_assistant_first(r) ==
    /\ accepts(r)
    /\ ConvBudget
    /\ \E conversation_id \in PathIds, payload \in ConvInputs, o \in create_outcomes :
        LET request == ("conversation_id" :> conversation_id) @@ payload
            conv == Conversation(payload.visitor_id,
                        <<ConversationMessage("assistant", generate_ai_reply(payload.message),
                                              payload.lang)>>, "open")
        IN  IF o = "ok"
            THEN /\ store' = create_document("conversation", conv)
                 /\ created' = [created EXCEPT ![r] = <<inserted_id("conversation")>>]
                 /\ req' = [req EXCEPT ![r] = request]
                 /\ pc' = [pc EXCEPT ![r] = "message_reply"]
                 /\ UNCHANGED response
            ELSE /\ response' = HTTPException("POST /api/conversations/{conversation_id}/message",
                                    request, o, <<>>)
                 /\ UNCHANGED <<store, created, req, pc>>
    /\ UNCHANGED <<db, env, foreign, conv_id, message, reply>>

add_message_user(r) ==
    /\ accepts(r)
    /\ ConvBudget
    /\ \E conversation_id \in PathIds, payload \in ConvInputs, o \in create_outcomes :
        LET request == ("conversation_id" :> conversation_id) @@ payload
            conv == Conversation(payload.visitor_id,
                        <<ConversationMessage("user", payload.message, payload.lang)>>, "open")
        IN  IF o = "ok"
            THEN /\ store' = create_document("conversation", conv)
                 /\ created' = [created EXCEPT ![r] = <<inserted_id("conversation")>>]
                 /\ req' = [req EXCEPT ![r] = request]
                 /\ pc' = [pc EXCEPT ![r] = "message_reply"]
                 /\ UNCHANGED response
            ELSE /\ response' = HTTPException("POST /api/conversations/{conversation_id}/message",
                                    request, o, <<>>)
                 /\ UNCHANGED <<store, created, req, pc>>
    /\ UNCHANGED <<db, env, foreign, conv_id, message, reply>>

\* faulty variant: a failed second create removes the user document again
add_message_reply_rollback(r) ==
    /\ pc[r] = "message_reply"
    /\ \E o \in create_outcomes :
        LET payload == req[r]
            ai_reply == generate_ai_reply(payload.message)
            conv == Conversation(payload.visitor_id,
                        <<ConversationMessage("assistant", ai_reply, payload.lang)>>, "open")
            kept == {i \in 1..Len(store["conversation"]) :
                        store["conversation"][i]["_id"] # created[r][1]}
            Rest[i \in 0..Len(store["conversation"])] ==
                IF i = 0 THEN <<>>
                ELSE IF i \in kept THEN Append(Rest[i - 1], store["conversation"][i])
                ELSE Rest[i - 1]
        IN  IF o = "ok"
            THEN /\ store' = create_document("conversation", conv)
                 /\ response' = Returned("POST /api/conversations/{conversation_id}/message", payload,
                                    [reply |-> ai_reply],
                                    Append(created[r], inserted_id("conversation")))
            ELSE /\ response' = HTTPException("POST /api/conversations/{conversation_id}/message",
                                    payload, o, created[r])
                 /\ store' = [store EXCEPT !["conversation"] = Rest[Len(store["conversation"])]]
    /\ pc' = [pc EXCEPT ![r] = "idle"]
    /\ req' = [req EXCEPT ![r] = NoRequest]
    /\ created' = [created EXCEPT ![r] = <<>>]
    /\ UNCHANGED <<db, env, foreign, conv_id, message, reply>>

add_message_reply(r) ==
    /\ pc[r] = "message_reply"
    /\ \E o \in create_outcomes :
        LET payload == req[r]
            ai_reply == generate_ai_reply(payload.message)
            conv == Conversation(payload.visitor_id,
                        <<ConversationMessage("assistant", ai_reply, payload.lang)>>, "open")
        IN  IF o = "ok"
            THEN /\ store' = create_document("conversation", conv)
                 /\ response' = Returned("POST /api/conversations/{conversation_id}/message", payload,
                                    [reply |-> ai_reply],
                                    Append(created[r], inserted_id("conversation")))
            ELSE /\ response' = HTTPException("POST /api/conversations/{conversation_id}/message",
                                    payload, o, created[r])
                 /\ UNCHANGED store
    /\ pc' = [pc EXCEPT ![r] = "idle"]
    /\ req' = [req EXCEPT ![r] = NoRequest]
    /\ created' = [created EXCEPT ![r] = <<>>]
    /\ UNCHANGED <<db, env, foreign, conv_id, message, reply>>

----------------------------------------------------------------------------
(* The conversation routes under concurrent requests.                      *)

\* conversation documents the store may hold before the process starts:
\* none, or the two documents of one earlier exchange
PriorConversations ==
    { <<>>,
      << ("_id" :> <<"conversation", 1>>) @@
            Conversation("v1", <<ConversationMessage("user", <<"h","i">>, None)>>, None),
         ("_id" :> <<"conversation", 2>>) @@
            Conversation("v1", <<ConversationMessage("assistant", generate_ai_reply(<<"h","i">>), None)>>, "open") >> }

Idle ==
    /\ pc = [r \in Reqs |-> "idle"]
    /\ req = [r \in Reqs |-> NoRequest]
    /\ conv_id = [r \in Reqs |-> NoId]
    /\ created = [r \in Reqs |-> <<>>]
    /\ response = NoResponse

Init ==
    /\ db = "Database"
    /\ env = [DATABASE_URL |-> "set", DATABASE_NAME |-> "appdb"]
    /\ foreign = 0
    /\ \E prior \in PriorConversations :
        store = [c \in Collections |-> IF c = "conversation" THEN prior ELSE <<>>]
    /\ Idle
    /\ message = <<>>
    /\ reply = NoReply

Next ==
    \E r \in Reqs :
        \/ start_conversation_user(r)
        \/ start_conversation_reply(r)
        \/ add_message_user(r)
        \/ add_message_reply(r)

Spec == Init /\ [][Next]_vars

----------------------------------------------------------------------------
(* Properties of the conversation routes, checked under Spec.              *)

StartRoute == "POST /api/conversations/start"
MessageRoute == "POST /api/conversations/{conversation_id}/message"

\* a conversation document with this identifier is stored
Stored(st, id) == \E i \in 1..Len(st["conversation"]) : st["conversation"][i]["_id"] = id
\* where it stands in the order the documents were persisted
Position(st, id) == CHOOSE i \in 1..Len(st["conversation"]) : st["conversation"][i]["_id"] = id
ConvDoc(st, id) == st["conversation"][Position(st, id)]

\* a document holding exactly one message, of the given role, content and visitor
SingleMessage(d, role, content, visitor) ==
    /\ Len(d.messages) = 1
    /\ d.messages[1].role = role
    /\ d.messages[1].content = content
    /\ d.visitor_id = visitor

\* C1: every successful POST /api/conversations/start with visitor v and message m
\* has inserted exactly two documents, both stored under v: first one with the
\* single user message m, then one with the single assistant message
\* generate_ai_reply(m); conversation_id is the identifier of the first, never of
\* the second, and reply is the assistant message's content.
C1_StartPersistsTwo ==
    (response.route = StartRoute /\ response.status = 200) =>
        LET ids == response.inserted
            v == response.request.visitor_id
            m == response.request.message
        IN  /\ Len(ids) = 2
            /\ ids[1] # ids[2]
            /\ Stored(store, ids[1]) /\ Stored(store, ids[2])
            /\ SingleMessage(ConvDoc(store, ids[1]), "user", m, v)
            /\ SingleMessage(ConvDoc(store, ids[2]), "assistant", generate_ai_reply(m), v)
            /\ response.body.conversation_id = ids[1]
            /\ response.body.conversation_id # ids[2]
            /\ response.body.reply = ConvDoc(store, ids[2]).messages[1].content

\* C1 witness: a start request answered with success while the store already
\* held documents of an earlier exchange
C1_Witness ==
    /\ response.route = StartRoute /\ response.status = 200
    /\ Len(store["conversation"]) > 2
    /\ response.body.conversation_id = response.inserted[1]

\* every document of st is a document of st2, unchanged and at the same place
Preserved(st, st2) ==
    \A c \in Collections :
        /\ Len(st[c]) <= Len(st2[c])
        /\ \A i \in 1..Len(st[c]) : st2[c][i] = st[c][i]

\* C6: a successful POST /api/conversations/{conversation_id}/message has
\* inserted two documents that are new (one user-role, one assistant-role),
\* whatever conversation_id is; no step of the route changes a document already
\* stored; the response body holds the reply and nothing else.
C6_MessagePersistsTwoNew ==
    [][ /\ Preserved(store, store')
        /\ \A r \in Reqs :
            (pc[r] = "idle" /\ pc'[r] = "message_reply") =>
                /\ ~Stored(store, created'[r][1])
                /\ Stored(store', created'[r][1])
                /\ Len(store'["conversation"]) = Len(store["conversation"]) + 1
        /\ \A r \in Reqs :
            (pc[r] = "message_reply" /\ pc'[r] = "idle" /\ response'.status = 200) =>
                LET ids == response'.inserted
                    q == response'.request
                IN  /\ response'.route = MessageRoute
                    /\ Len(ids) = 2 /\ ids[1] # ids[2]
                    /\ ids[1] = created[r][1]
                    /\ ~Stored(store, ids[2])
                    /\ Len(store'["conversation"]) = Len(store["conversation"]) + 1
                    /\ SingleMessage(ConvDoc(store', ids[1]), "user", q.message, q.visitor_id)
                    /\ SingleMessage(ConvDoc(store', ids[2]), "assistant",
                                     generate_ai_reply(q.message), q.visitor_id)
                    /\ DOMAIN response'.body = {"reply"}
      ]_vars

\* C6 witness: a message request whose path parameter names a stored document
\* has been answered with success
C6_Witness ==
    /\ response.route = MessageRoute /\ response.status = 200
    /\ Len(response.inserted) = 2
    /\ Stored(store, response.request.conversation_id)
    /\ \A i \in 1..2 : response.inserted[i] # response.request.conversation_id

\* C7: every stored Conversation document holds exactly one message, has status
\* 'open' and source 'web'.
C7_OneOpenWebMessage ==
    \A i \in 1..Len(store["conversation"]) :
        LET d == store["conversation"][i]
        IN  /\ Len(d.messages) = 1
            /\ d.status = "open"
            /\ d.status # "closed"
            /\ d.source = "web"

\* C7 witness: a start request and a message request are both between their two creates
C7_Witness ==
    /\ Len(store["conversation"]) >= 2
    /\ \E r \in Reqs : pc[r] = "start_reply"
    /\ \E r \in Reqs : pc[r] = "message_reply"

\* C9: within one request the user document is persisted before the assistant
\* document: while a request is between its two creates its user document is
\* stored and its assistant document is not, and a request answered with success
\* has its user document earlier in persist order than its assistant document.
\* (Nothing else orders the documents of two requests.)
C9_UserBeforeOwnAssistant ==
    /\ \A r \in Reqs :
        pc[r] # "idle" =>
            /\ Len(created[r]) = 1
            /\ Stored(store, created[r][1])
            /\ SingleMessage(ConvDoc(store, created[r][1]), "user", req[r].message, req[r].visitor_id)
    /\ (response.route \in {StartRoute, MessageRoute} /\ response.status = 200) =>
            /\ Len(response.inserted) = 2
            /\ Stored(store, response.inserted[1]) /\ Stored(store, response.inserted[2])
            /\ ConvDoc(store, response.inserted[1]).messages[1].role = "user"
            /\ ConvDoc(store, response.inserted[2]).messages[1].role = "assistant"
            /\ Position(store, response.inserted[1]) < Position(store, response.inserted[2])

\* C9 witness: message request A of visitor v1 has persisted its user document
\* and not yet its assistant document; message request B of the same visitor,
\* begun later, has persisted both of its documents and been answered
C9_Witness ==
    \E a \in Reqs :
        /\ pc[a] = "message_reply"
        /\ req[a].visitor_id = "v1"
        /\ response.route = MessageRoute /\ response.status = 200
        /\ response.request.visitor_id = "v1"
        /\ Position(store, created[a][1]) < Position(store, response.inserted[1])
        /\ Position(store, response.inserted[1]) < Position(store, response.inserted[2])

\* C9, the alternating order reached: B's user document, then A's user
\* document, then B's assistant document, with A's assistant document still to come
C9_AlternatingReached ==
    \E a \in Reqs :
        /\ pc[a] = "message_reply"
        /\ req[a].visitor_id = "v1"
        /\ response.route = MessageRoute /\ response.status = 200
        /\ response.request.visitor_id = "v1"
        /\ Position(store, response.inserted[1]) < Position(store, created[a][1])
        /\ Position(store, created[a][1]) < Position(store, response.inserted[2])

\* C9, the sequential order reached: both documents of B, then A's user document
C9_SequentialReached ==
    \E a \in Reqs :
        /\ pc[a] = "message_reply"
        /\ req[a].visitor_id = "v1"
        /\ response.route = MessageRoute /\ response.status = 200
        /\ response.request.visitor_id = "v1"
        /\ Position(store, response.inserted[2]) < Position(store, created[a][1])

\* C10: the two creates of a conversation route are not atomic.  A request whose
\* first create fails is answered 500 with the store as it was and nothing
\* inserted; a request whose second create fails is answered 500 with the store
\* as it was before that create, so its user document stays stored and no
\* assistant document joins it; neither 500 body holds conversation_id or reply.
C10_NoRollback ==
    [][ /\ (pc' = pc /\ response' # response) =>
            /\ response'.status = 500
            /\ response'.inserted = <<>>
            /\ store' = store
            /\ DOMAIN response'.body = {"detail"}
        /\ \A r \in Reqs :
            (pc[r] # "idle" /\ pc'[r] = "idle" /\ response'.status = 500) =>
                /\ store' = store
                /\ response'.inserted = created[r]
                /\ Len(created[r]) = 1
                /\ Stored(store', created[r][1])
                /\ SingleMessage(ConvDoc(store', created[r][1]), "user",
                                 response'.request.message, response'.request.visitor_id)
                /\ DOMAIN response'.body = {"detail"}
      ]_vars

\* C10 witness: a request answered 500 after its user document was stored; that
\* document is the last one persisted, with no assistant document after it
C10_Witness ==
    /\ response.route \in {StartRoute, MessageRoute}
    /\ response.status = 500
    /\ Len(response.inserted) = 1
    /\ Stored(store, response.inserted[1])
    /\ Position(store, response.inserted[1]) = Len(store["conversation"])
    /\ ConvDoc(store, response.inserted[1]).messages[1].role = "user"

----------------------------------------------------------------------------
(* The single-call routes: each handler makes one store call and returns.  *)

\* the result caps the list routes pass to get_documents
PROPERTY_LIMIT == 1
FAQ_LIMIT == 50
LEAD_LIMIT == 50
BOOKING_LIMIT == 50

\* sizes a collection may have before the process starts: empty, or one short of a cap
PriorSizes == {0, FAQ_LIMIT - 1}

\* room for one more document: at most MaxNew are inserted on top of a prior size
StoreBudget(collection_name) ==
    \E p \in PriorSizes :
        /\ p <= Len(store[collection_name])
        /\ Len(store[collection_name]) < p + MaxNew

\* GET / (main.py:21-23)
root ==
    /\ response' = Returned("GET /", NoRequest,
                        [service |-> "AI Receptionist API", status |-> "ok"], <<>>)
    /\ UNCHANGED <<db, env, foreign, store, pc, req, conv_id, created, message, reply>>

\* faulty variant: the except branch returns instead of raising
post_one_swallows(route, collection_name, payload) ==
    /\ \E o \in create_outcomes :
        IF o = "ok"
        THEN /\ store' = create_document(collection_name, payload)
             /\ response' = Returned(route, payload, [id |-> inserted_id(collection_name)],
                                <<inserted_id(collection_name)>>)
        ELSE /\ response' = Returned(route, payload, [id |-> NoId], <<>>)
             /\ UNCHANGED store
    /\ UNCHANGED <<db, env, foreign, pc, req, conv_id, created, message, reply>>

\* one create_document call wrapped in try/except, as every POST route below is written
post_one(route, collection_name, payload) ==
    /\ \E o \in create_outcomes :
        IF o = "ok"
        THEN /\ store' = create_document(collection_name, payload)
             /\ response' = Returned(route, payload, [id |-> inserted_id(collection_name)],
                                <<inserted_id(collection_name)>>)
        ELSE /\ response' = HTTPException(route, payload, o, <<>>)
             /\ UNCHANGED store
    /\ UNCHANGED <<db, env, foreign, pc, req, conv_id, created, message, reply>>

\* one get_documents call wrapped in try/except, as every GET list route below is written
get_list(route, collection_name, limit) ==
    /\ \E o \in get_outcomes :
        IF o = "ok"
        THEN response' = Returned(route, NoRequest, get_documents(collection_name, limit), <<>>)
        ELSE response' = HTTPException(route, NoRequest, o, <<>>)
    /\ UNCHANGED <<db, env, foreign, store, pc, req, conv_id, created, message, reply>>

\* POST /api/property (main.py:54-61)
upsert_property ==
    /\ StoreBudget("property")
    /\ post_one("POST /api/property", "property", Property("Seaside Inn"))

\* faulty variant: the sample is fetched with a cap of 2
get_property_sample_two == get_list("GET /api/property", "property", PROPERTY_LIMIT + 1)

\* GET /api/property (main.py:63-69)
get_property_sample == get_list("GET /api/property", "property", PROPERTY_LIMIT)

\* POST /api/faqs (main.py:72-78)
add_faq ==
    /\ StoreBudget("faq")
    /\ post_one("POST /api/faqs", "faq", Faq("Is breakfast included?", "Yes"))

\* GET /api/faqs (main.py:80-85)
list_faqs == get_list("GET /api/faqs", "faq", FAQ_LIMIT)

\* POST /api/leads (main.py:132-138)
create_lead ==
    /\ StoreBudget("lead")
    /\ post_one("POST /api/leads", "lead", Lead("Ada", <<"conversation", 1>>))

\* GET /api/leads (main.py:140-145)
list_leads == get_list("GET /api/leads", "lead", LEAD_LIMIT)

\* POST /api/bookings (main.py:148-154)
request_booking ==
    /\ StoreBudget("bookingrequest")
    /\ post_one("POST /api/bookings", "bookingrequest", BookingRequest("Ada", "guest@example.com"))

\* GET /api/bookings (main.py:156-161)
list_bookings == get_list("GET /api/bookings", "bookingrequest", BOOKING_LIMIT)

----------------------------------------------------------------------------
(* GET /test (main.py:25-51).                                              *)

\* faulty variant: the slice keeps one character more
slice_one_more(s, n) == SubSeq(s, 1, IF Len(s) < n + 1 THEN Len(s) ELSE n + 1)

\* s[:n]
slice(s, n) == SubSeq(s, 1, IF Len(s) < n THEN Len(s) ELSE n)

ERROR_CHARS == 120
COLLECTIONS_SHOWN == 10

Digits == <<"0","1","2","3","4","5","6","7","8","9">>
\* a failure description of n characters, no two neighbours alike
Description(n) == [i \in 1..n |-> Digits[(i % 10) + 1]]
\* str(e) of the failures listing the collection names can raise: short, exactly
\* the kept length, and longer
ListingErrors == {Description(7), Description(ERROR_CHARS), Description(ERROR_CHARS + 5)}

\* names the database reports: this program's collections that hold a document
\* and the foreign ones, in either order
OwnNames ==
    LET order == <<"bookingrequest", "conversation", "faq", "lead", "property">>
        F[i \in 0..5] ==
            IF i = 0 THEN <<>>
            ELSE IF store[order[i]] # <<>> THEN Append(F[i - 1], order[i]) ELSE F[i - 1]
    IN  F[5]
ForeignNames == [i \in 1..foreign |-> <<"other", i>>]
list_collection_names == {OwnNames \o ForeignNames, ForeignNames \o OwnNames}

\* bool(os.getenv(name)): unset and empty are both false
truthy(v) == v # None /\ v # ""

\* The response carries, beside what is sent, the outcome of the listing call
\* it was built from (history).  The outer except (main.py:49-50) guards calls
\* that do not raise and is never entered.
test_database ==
    /\ IF db # None
       THEN \E listed \in [ok : {TRUE}, value : list_collection_names]
                          \cup [ok : {FALSE}, value : ListingErrors] :
            response' = ("listing" :> listed) @@ Returned("GET /test", NoRequest,
                [backend |-> "U+2705 Running",
                 database |-> IF listed.ok THEN <<"U+2705 Connected & Working">>
                              ELSE <<"U+26A0 U+FE0F Connected but Error: ">>
                                       \o slice(listed.value, ERROR_CHARS),
                 database_url |-> IF truthy(env.DATABASE_URL) THEN "U+2705 Set" ELSE "U+274C Not Set",
                 database_name |-> IF truthy(env.DATABASE_NAME) THEN env.DATABASE_NAME
                                   ELSE "U+274C Not Set",
                 connection_status |-> IF listed.ok THEN "Connected" ELSE "Not Connected",
                 collections |-> IF listed.ok THEN slice(listed.value, COLLECTIONS_SHOWN) ELSE <<>>],
                <<>>)
       ELSE response' = Returned("GET /test", NoRequest,
                [backend |-> "U+2705 Running",
                 database |-> <<"U+26A0 U+FE0F Available but not initialized">>,
                 database_url |-> None,
                 database_name |-> None,
                 connection_status |-> "Not Connected",
                 collections |-> <<>>], <<>>)
    /\ UNCHANGED <<db, env, foreign, store, pc, req, conv_id, created, message, reply>>

----------------------------------------------------------------------------
(* The single-call routes, against a live store or with no handle.         *)

\* the stored form of the n documents a collection holds before the process starts
Prior(collection_name, data, n) ==
    [i \in 1..n |-> ("_id" :> <<collection_name, i>>) @@ data]

InitRoutes ==
    /\ db \in {"Database", None}
    /\ env \in [DATABASE_URL : {"mongodb://db:27017"}, DATABASE_NAME : {None, "appdb"}]
    /\ foreign \in {0, COLLECTIONS_SHOWN - 2}
    /\ \E n \in PriorSizes :
        store = [c \in Collections |->
                    CASE c = "faq" -> Prior(c, Faq("Is breakfast included?", "Yes"), n)
                      [] c = "lead" -> Prior(c, Lead("Ada", <<"conversation", 1>>), n)
                      [] c = "bookingrequest" -> Prior(c, BookingRequest("Ada", "guest@example.com"), n)
                      [] OTHER -> <<>>]
    /\ Idle
    /\ message = <<>>
    /\ reply = NoReply

NextRoutes ==
    \/ root
    \/ test_database
    \/ upsert_property
    \/ get_property_sample
    \/ add_faq
    \/ list_faqs
    \/ create_lead
    \/ list_leads
    \/ request_booking
    \/ list_bookings

SpecRoutes == InitRoutes /\ [][NextRoutes]_vars

----------------------------------------------------------------------------
(* Properties of the single-call routes, checked under SpecRoutes.         *)

\* the first n characters of e, all of e when it has fewer
FirstChars(e, n) == [i \in 1..(IF Len(e) < n THEN Len(e) ELSE n) |-> e[i]]

\* C3: GET /test always answers 200.  With a live handle and a failed listing
\* the database indicator is the error prefix followed by the first 120
\* characters of the failure description, connection_status is 'Not Connected'
\* and collections is empty; connection_status is 'Connected' exactly when the
\* handle is live and the listing succeeded.
C3_TestAlwaysAnswers ==
    response.route = "GET /test" =>
        /\ response.status = 200
        /\ (db # None /\ ~response.listing.ok) =>
                /\ response.body.database =
                        <<"U+26A0 U+FE0F Connected but Error: ">> \o FirstChars(response.listing.value, 120)
                /\ response.body.connection_status = "Not Connected"
                /\ response.body.collections = <<>>
        /\ response.body.connection_status = "Connected" <=> (db # None /\ response.listing.ok)

\* C3 witness: the listing failed with a description longer than 120 characters
C3_Witness ==
    /\ response.route = "GET /test"
    /\ db # None
    /\ ~response.listing.ok
    /\ Len(response.listing.value) > 120
    /\ Len(response.body.database) = 121

Holds(collection_name, d) ==
    \E i \in 1..Len(store[collection_name]) : store[collection_name][i] = d

\* C4: a successful GET /api/faqs, /api/leads or /api/bookings returns at most 50
\* documents, all of its own collection; a successful GET /api/property returns
\* at most 1 Property document, and exactly 1 when one is stored.
C4_ListCaps ==
    /\ \A rc \in { <<"GET /api/faqs", "faq">>, <<"GET /api/leads", "lead">>,
                   <<"GET /api/bookings", "bookingrequest">> } :
        (response.route = rc[1] /\ response.status = 200) =>
            /\ Len(response.body) <= 50
            /\ \A i \in 1..Len(response.body) : Holds(rc[2], response.body[i])
    /\ (response.route = "GET /api/property" /\ response.status = 200) =>
            /\ Len(response.body) <= 1
            /\ \A i \in 1..Len(response.body) : Holds("property", response.body[i])
            /\ store["property"] # <<>> => Len(response.body) = 1

\* C4 witness: GET /api/faqs answered from a collection of more than 50 documents
C4_Witness ==
    /\ response.route = "GET /api/faqs" /\ response.status = 200
    /\ Len(store["faq"]) > 50
    /\ Len(response.body) = 50

\* C4, the other cap reached: GET /api/property answered with 1 document of 2 stored
C4_PropertyReached ==
    /\ response.route = "GET /api/property" /\ response.status = 200
    /\ Len(store["property"]) = 2
    /\ Len(response.body) = 1

----------------------------------------------------------------------------
(* Every route with no store handle: the process started without a usable  *)
(* connection string.  A conversation handler never gets past its first    *)
(* create_document, so only the first steps appear.                        *)

InitNoStore ==
    /\ db = None
    /\ env \in [DATABASE_URL : {None, "", "mongodb://"}, DATABASE_NAME : {None, "appdb"}]
    /\ foreign = 0
    /\ store = [c \in Collections |-> <<>>]
    /\ Idle
    /\ message = <<>>
    /\ reply = NoReply

NextNoStore ==
    \/ NextRoutes
    \/ \E r \in Reqs :
        \/ start_conversation_user(r)
        \/ add_message_user(r)

SpecNoStore == InitNoStore /\ [][NextNoStore]_vars

DataRoutes ==
    { "POST /api/property", "GET /api/property", "POST /api/faqs", "GET /api/faqs",
      "POST /api/leads", "GET /api/leads", "POST /api/bookings", "GET /api/bookings",
      StartRoute, MessageRoute }

\* C2: with no store handle every data route is answered 500, no handler gets
\* past its first store call and no document is ever stored; GET /test is
\* answered 200 with the database indicator 'Available but not initialized',
\* connection_status 'Not Connected' and no collections.
C2_NoHandle ==
    db = None =>
        /\ \A c \in Collections : store[c] = <<>>
        /\ \A r \in Reqs : pc[r] = "idle"
        /\ response.route \in DataRoutes =>
                /\ response.status = 500
                /\ response.inserted = <<>>
        /\ response.route = "GET /test" =>
                /\ response.status = 200
                /\ response.body.database = <<"U+26A0 U+FE0F Available but not initialized">>
                /\ response.body.connection_status = "Not Connected"
                /\ response.body.collections = <<>>

\* C2 witness: a conversation-message request answered 500 with nothing stored
C2_Witness ==
    /\ db = None
    /\ response.route = MessageRoute
    /\ response.status = 500
    /\ store["conversation"] = <<>>

\* C2, the other half reached: GET /test answered without a handle
C2_TestReached ==
    /\ db = None
    /\ response.route = "GET /test"
    /\ response.status = 200

----------------------------------------------------------------------------
(* The reply generator alone, over texts assembled from fragments: every   *)
(* keyword, mixed-case spellings, pieces that form a keyword only across a *)
(* join, whitespace, and text with no keyword.                             *)

Fragments ==
    {   <<"c","h","e","c","k","-","i","n">>,
        <<"c","h","e","c","k"," ","i","n">>,
        <<"a","r","r","i","v","a","l">>,
        <<"c","h","e","c","k","-","o","u","t">>,
        <<"c","h","e","c","k"," ","o","u","t">>,
        <<"d","e","p","a","r","t","u","r","e">>,
        <<"w","i","f","i">>,
        <<"w","i","-","f","i">>,
        <<"i","n","t","e","r","n","e","t">>,
        <<"p","a","r","k","i","n","g">>,
        <<"c","a","r">>,
        <<"p","e","t">>,
        <<"d","o","g">>,
        <<"c","a","t">>,
        <<"p","o","o","l">>,
        <<"g","y","m">>,
        <<"f","i","t","n","e","s","s">>,
        <<"s","p","a">>,
        <<"r","a","t","e">>,
        <<"p","r","i","c","e">>,
        <<"c","o","s","t">>,
        <<"W","i","F","i">>,
        <<"C","h","e","c","k","-","I","n">>,
        <<"P","E","T","S">>,
        <<"c","h","e","c","k">>,
        <<"-","i","n">>,
        <<" ","o","u","t">>,
        <<"c">>,
        <<"a","t">>,
        <<" ">>,
        <<" ","\t">>,
        <<"t","o","w","e","l","s","?">> }

RECURSIVE Join(_)
Join(parts) == IF parts = <<>> THEN <<>> ELSE Head(parts) \o Join(Tail(parts))

Messages == UNION {{Join(parts) : parts \in [1..n -> Fragments]} : n \in 0..MaxFrags}

InitReply ==
    /\ db = "Database"
    /\ env = [DATABASE_URL |-> "mongodb://db:27017", DATABASE_NAME |-> "appdb"]
    /\ foreign = 0
    /\ store = [c \in Collections |-> <<>>]
    /\ Idle
    /\ message \in Messages
    /\ reply = NoReply

\* one call generate_ai_reply(message)
ask ==
    /\ reply = NoReply
    /\ reply' = generate_ai_reply(message)
    /\ UNCHANGED <<db, env, foreign, store, pc, req, conv_id, created, response, message>>

SpecReply == InitReply /\ [][ask]_vars

----------------------------------------------------------------------------
(* Properties of the reply generator, checked under SpecReply.             *)

\* the category table: keywords by priority
CategoryKeywords ==
    << {<<"c","h","e","c","k","-","i","n">>, <<"c","h","e","c","k"," ","i","n">>,
        <<"a","r","r","i","v","a","l">>},
       {<<"c","h","e","c","k","-","o","u","t">>, <<"c","h","e","c","k"," ","o","u","t">>,
        <<"d","e","p","a","r","t","u","r","e">>},
       {<<"w","i","f","i">>, <<"w","i","-","f","i">>, <<"i","n","t","e","r","n","e","t">>},
       {<<"p","a","r","k","i","n","g">>, <<"c","a","r">>},
       {<<"p","e","t">>, <<"d","o","g">>, <<"c","a","t">>},
       {<<"p","o","o","l">>, <<"g","y","m">>, <<"f","i","t","n","e","s","s">>, <<"s","p","a">>},
       {<<"r","a","t","e">>, <<"p","r","i","c","e">>, <<"c","o","s","t">>} >>

\* the category table: responses by priority (the Wi-Fi response as the code spells it)
CategoryResponse ==
    << <<"Check-in is at 3:00 PM. Early check-in is subject to availability.">>,
       <<"Check-out is at 11:00 AM. Late check-out may be available upon request.">>,
       <<"Yes, complimentary high-speed Wi", "U+2011", "Fi is available throughout the property.">>,
       <<"Parking is available on-site. Please check with the front desk for rates and availability.">>,
       <<"We are pet-friendly for select rooms. A cleaning fee may apply.">>,
       <<"Our amenities include fitness center access from 6 AM to 10 PM.">>,
       <<"Standard rates start from $89 per night before taxes and fees.">> >>

FallbackPrompt ==
    <<"Thanks for reaching out! How can I assist with your stay, booking, or questions today?">>

\* whether keyword k occurs in text, position by position
Occurs(k, text) ==
    \E start \in 1..Len(text) :
        /\ start + Len(k) - 1 <= Len(text)
        /\ \A j \in 1..Len(k) : text[start + j - 1] = k[j]

\* the categories with a keyword in the lowercased, trimmed message
Matching(m) ==
    LET text == strip(lower(m))
    IN  {c \in 1..7 : \E k \in CategoryKeywords[c] : Occurs(k, text)}

\* C5: the reply is the response of the lowest-numbered category with a keyword
\* occurring in the lowercased, trimmed message, and it is the fallback prompt if
\* and only if no category has one.
C5_CategoryPriority ==
    reply # NoReply =>
        /\ reply = FallbackPrompt <=> Matching(message) = {}
        /\ Matching(message) # {} =>
            reply = CategoryResponse[CHOOSE c \in Matching(message) :
                                        \A d \in Matching(message) : c <= d]

\* C5 witness: a message with keywords of two categories was answered for the
\* one of higher priority
C5_Witness ==
    /\ reply # NoReply
    /\ {1, 3} \subseteq Matching(message)
    /\ reply = CategoryResponse[1]

\* C8 as stated: a message with a Wi-Fi keyword and no check-in or check-out
\* keyword is answered with the text whose "Wi-Fi" has an ASCII hyphen.
C8_WifiTextAscii ==
    (reply # NoReply /\ 3 \in Matching(message) /\ Matching(message) \cap {1, 2} = {}) =>
        reply = <<"Yes, complimentary high-speed Wi", "-", "Fi is available throughout the property.">>

\* C8 as amended: such a message is answered with the text whose "Wi-Fi" is
\* spelled with the non-breaking hyphen U+2011.
C8_WifiTextNonBreaking ==
    (reply # NoReply /\ 3 \in Matching(message) /\ Matching(message) \cap {1, 2} = {}) =>
        reply = <<"Yes, complimentary high-speed Wi", "U+2011", "Fi is available throughout the property.">>

\* C8 witness: a message spelling the keyword "wi-fi", with no check-in or
\* check-out keyword, has been answered
C8_Witness ==
    /\ reply # NoReply
    /\ Occurs(<<"w","i","-","f","i">>, strip(lower(message)))
    /\ Matching(message) \cap {1, 2} = {}

====
